---- MODULE Spec2Model ----
(***************************************************************************)
(* Shodone: a proxy that multiplexes requests over a pool of upstream API  *)
(* keys.  The model covers the api_keys table (package storage), the       *)
(* proxyRequest handler with its keyMutex (package api), the health        *)
(* refresh handler and the administrative handlers that write the table.   *)
(*                                                                         *)
(* Time is a counter of ticks; a calendar month is MonthLen ticks long and  *)
(* month m starts at tick m * MonthLen.  A timestamp of 0 is the zero      *)
(* time.Time / SQL NULL.                                                    *)
(***************************************************************************)
EXTENDS Integers, FiniteSets, Sequences, TLC

\* ------------------------------------------------------------------ bounds
NumKeys == 2
NumReqs == 2
MaxLimit == 2
MaxCost == 2
MaxTime == 3
MaxRemaining == 2
MaxAdminOps == 2
MaxErrors == 2
MaxSecretLen == 5

\* --------------------------------------------------------- model constants
StartTime == 2
MonthLen == 2

Keys == 1..NumKeys
Reqs == 1..NumReqs
Limits == 0..MaxLimit
TZOffsets == {-1, 0, 1}

VARIABLES
    api_keys,    \* the api_keys table: id -> row
    cost,        \* cfg.CostPerRequest
    now,         \* the wall clock (time.Now / CURRENT_TIMESTAMP)
    keyMutex,    \* Server.keyMutex: 0 when free, else the request holding it
    pc,          \* position of each proxyRequest handler
    key,         \* the *APIKey each handler got from GetAvailableAPIKey
    err,         \* the error each handler got from GetAvailableAPIKey
    calls,       \* number of s.client.Do calls each handler has made
    cancelled,   \* whether the caller of each handler has cancelled its request
    seq,         \* sqlite_sequence of api_keys: the highest id ever given out
    adminOps,    \* number of administrative requests served so far
    rpc,         \* position of the refreshAPIKeys handler
    rkeys,       \* the keys slice refreshAPIKeys got from GetAllAPIKeys
    ridx,        \* the id the loop of refreshAPIKeys is at
    rvalid,      \* isValid as CheckAPIKey returned it for that id
    updatedCount,\* updatedCount of refreshAPIKeys
    refreshErrors,\* keys refreshAPIKeys logged "Failed to refresh API key" for
    apc,         \* position of the administrative handler in progress
    akey,        \* id, requested is_active and read error_count of updateAPIKey
    secret,      \* key.Key of the *APIKey an administrative handler is to answer with
    masked       \* key.Key as the handler put it in its response, <<>> before

proxyVars == <<keyMutex, pc, key, err, calls, cancelled>>
refreshVars == <<rpc, rkeys, ridx, rvalid, updatedCount, refreshErrors>>
adminVars == <<seq, adminOps, apc, akey, secret, masked>>
vars == <<api_keys, cost, now, keyMutex, pc, key, err, calls, cancelled, seq,
          adminOps, rpc, rkeys, ridx, rvalid, updatedCount, refreshErrors,
          apc, akey, secret, masked>>

\* A row of api_keys.  exists = FALSE stands for "no row with this id".
NoRow ==
    [exists |-> FALSE, quota_limit |-> 0, quota_used |-> 0, is_active |-> FALSE,
     last_used |-> 0, last_checked |-> 0, error_count |-> 0, refreshes_at |-> 0]

\* The zero value of storage.APIKey held by a handler that has no key yet.
NoKey ==
    [id |-> 0, quota_limit |-> 0, quota_used |-> 0, is_active |-> FALSE,
     last_used |-> 0, last_checked |-> 0, error_count |-> 0, refreshes_at |-> 0]

\* The columns Scan copies into an APIKey.
ScanRow(id) ==
    [id |-> id,
     quota_limit |-> api_keys[id].quota_limit,
     quota_used |-> api_keys[id].quota_used,
     is_active |-> api_keys[id].is_active,
     last_used |-> api_keys[id].last_used,
     last_checked |-> api_keys[id].last_checked,
     error_count |-> api_keys[id].error_count,
     refreshes_at |-> api_keys[id].refreshes_at]

\* ------------------------------------------------------- GetAvailableAPIKey
\* Eligible with "quota_used + 1 < quota_limit": one unit of quota is never given out.
EligibleOffByOne(row) ==
    /\ row.exists
    /\ row.is_active
    /\ (row.quota_limit = 0 \/ row.quota_used + 1 < row.quota_limit)

\* Eligible with "quota_used <= quota_limit": a key at its limit is given out once more.
EligibleAtLimit(row) ==
    /\ row.exists
    /\ row.is_active
    /\ (row.quota_limit = 0 \/ row.quota_used <= row.quota_limit)

\* Eligible without "is_active = TRUE".
EligibleIgnoresActive(row) ==
    /\ row.exists
    /\ (row.quota_limit = 0 \/ row.quota_used < row.quota_limit)

\* Eligible without "quota_limit = 0 OR".
EligibleNoUnlimited(row) ==
    /\ row.exists
    /\ row.is_active
    /\ row.quota_used < row.quota_limit

\* WHERE is_active = TRUE AND (quota_limit = 0 OR quota_used < quota_limit)
Eligible(row) ==
    /\ row.exists
    /\ row.is_active
    /\ (row.quota_limit = 0 \/ row.quota_used < row.quota_limit)

\* CASE WHEN quota_limit = 0 THEN 1 ELSE quota_limit END
Denom(row) == IF row.quota_limit = 0 THEN 1 ELSE row.quota_limit

\* ORDER BY quota_used * 1.0 / Denom ASC, last_used ASC  (NULL sorts first).
\* The quotients are compared by cross multiplication, Denom being positive.
OrderBefore(a, b) ==
    \/ a.quota_used * Denom(b) < b.quota_used * Denom(a)
    \/ /\ a.quota_used * Denom(b) = b.quota_used * Denom(a)
       /\ a.last_used < b.last_used

\* LIMIT 1: the rows the query may return; rows that tie are returned in an
\* order SQL leaves open.
FirstRows ==
    {k \in Keys :
        /\ Eligible(api_keys[k])
        /\ \A j \in Keys : Eligible(api_keys[j]) => ~OrderBefore(api_keys[j], api_keys[k])}

\* time.Date(currentTime.Year(), currentTime.Month(), 1, ..., time.UTC).AddDate(0, 1, 0)
\* Year() and Month() are read in the server's local zone, off ticks from UTC.
NextRefresh(t, off) == (((t + off) \div MonthLen) + 1) * MonthLen

\* key.RefreshesAt.Before(currentTime) && !key.RefreshesAt.IsZero()
ShouldReset(k, t) == k.refreshes_at < t /\ k.refreshes_at # 0

\* ------------------------------------------------------------ SQL updates
\* UPDATE api_keys SET quota_used = quota_used + ?, last_used = CURRENT_TIMESTAMP WHERE id = ?
IncrementAPIKeyUsage(id, incrementQuota) ==
    IF api_keys[id].exists
    THEN [api_keys EXCEPT ![id].quota_used = @ + incrementQuota, ![id].last_used = now]
    ELSE api_keys

\* UPDATE api_keys SET quota_used = ?, last_used = CURRENT_TIMESTAMP WHERE id = ?
UpdateAPIKeyUsage(id, quotaUsed) ==
    IF api_keys[id].exists
    THEN [api_keys EXCEPT ![id].quota_used = quotaUsed, ![id].last_used = now]
    ELSE api_keys

\* UPDATE api_keys SET is_active = ?, error_count = ?, last_checked = CURRENT_TIMESTAMP WHERE id = ?
UpdateAPIKeyStatus(id, isActive, errorCount) ==
    IF api_keys[id].exists
    THEN [api_keys EXCEPT ![id].is_active = isActive, ![id].error_count = errorCount,
                          ![id].last_checked = now]
    ELSE api_keys

\* UPDATE api_keys SET quota_used = 0, refreshes_at = ? WHERE id = ?
ResetQuota(id, nextRefresh) ==
    IF api_keys[id].exists
    THEN [api_keys EXCEPT ![id].quota_used = 0, ![id].refreshes_at = nextRefresh]
    ELSE api_keys

\* ------------------------------------------------------------ proxyRequest
\* Lock that does not wait for the mutex to be free.
LockNoWait(r) ==
    /\ pc[r] = "start"
    /\ keyMutex' = r
    /\ pc' = [pc EXCEPT ![r] = "locked"]
    /\ UNCHANGED <<api_keys, cost, now, key, err, calls, cancelled, refreshVars, adminVars>>

\* s.keyMutex.Lock()
Lock(r) ==
    /\ pc[r] = "start"
    /\ keyMutex = 0
    /\ keyMutex' = r
    /\ pc' = [pc EXCEPT ![r] = "locked"]
    /\ UNCHANGED <<api_keys, cost, now, key, err, calls, cancelled, refreshVars, adminVars>>

\* GetAvailableAPIKey, the SELECT: a row comes back, or sql.ErrNoRows, on which
\* the handler unlocks and answers 503.
Query(r) ==
    /\ pc[r] = "locked"
    /\ IF FirstRows = {}
       THEN /\ err' = [err EXCEPT ![r] = "ErrNoRows"]
            /\ keyMutex' = 0
            /\ pc' = [pc EXCEPT ![r] = "d503"]
            /\ UNCHANGED key
       ELSE /\ \E k \in FirstRows : key' = [key EXCEPT ![r] = ScanRow(k)]
            /\ pc' = [pc EXCEPT ![r] = "selected"]
            /\ UNCHANGED <<keyMutex, err>>
    /\ UNCHANGED <<api_keys, cost, now, calls, cancelled, refreshVars, adminVars>>

\* GetAvailableAPIKey, "Check if quota should be reset": reads the clock and
\* resets the returned key when its refreshes_at has passed.
CheckReset(r) ==
    /\ pc[r] = "selected"
    /\ IF ShouldReset(key[r], now)
       THEN \E off \in TZOffsets :
              /\ api_keys' = ResetQuota(key[r].id, NextRefresh(now, off))
              /\ key' = [key EXCEPT ![r].quota_used = 0,
                                    ![r].refreshes_at = NextRefresh(now, off)]
       ELSE UNCHANGED <<api_keys, key>>
    /\ pc' = [pc EXCEPT ![r] = "reserve"]
    /\ UNCHANGED <<cost, now, keyMutex, err, calls, cancelled, refreshVars, adminVars>>

\* Reserve without the Unlock after the increment.
ReserveKeepsLock(r) ==
    /\ pc[r] = "reserve"
    /\ api_keys' = IncrementAPIKeyUsage(key[r].id, cost)
    /\ pc' = [pc EXCEPT ![r] = "forward"]
    /\ UNCHANGED <<cost, now, keyMutex, key, err, calls, cancelled, refreshVars, adminVars>>

\* s.db.IncrementAPIKeyUsage(key.ID, s.cfg.CostPerRequest); s.keyMutex.Unlock()
Reserve(r) ==
    /\ pc[r] = "reserve"
    /\ api_keys' = IncrementAPIKeyUsage(key[r].id, cost)
    /\ keyMutex' = 0
    /\ pc' = [pc EXCEPT ![r] = "forward"]
    /\ UNCHANGED <<cost, now, key, err, calls, cancelled, refreshVars, adminVars>>

\* ForwardError that also penalises the key as a rejection would.
ForwardErrorDeactivates(r) ==
    /\ pc[r] = "forward"
    /\ calls' = [calls EXCEPT ![r] = @ + 1]
    /\ api_keys' = [k \in Keys |->
                       IF k = key[r].id /\ api_keys[k].exists
                       THEN [api_keys[k] EXCEPT !.quota_used = @ - cost, !.last_used = now,
                                                !.is_active = FALSE,
                                                !.error_count = key[r].error_count + 1]
                       ELSE api_keys[k]]
    /\ pc' = [pc EXCEPT ![r] = "d502"]
    /\ UNCHANGED <<cost, now, keyMutex, key, err, cancelled, refreshVars, adminVars>>

\* s.client.Do fails: the handler restores the quota and answers 502.
ForwardError(r) ==
    /\ pc[r] = "forward"
    /\ calls' = [calls EXCEPT ![r] = @ + 1]
    /\ api_keys' = IncrementAPIKeyUsage(key[r].id, 0 - cost)
    /\ pc' = [pc EXCEPT ![r] = "d502"]
    /\ UNCHANGED <<cost, now, keyMutex, key, err, cancelled, refreshVars, adminVars>>

\* ForwardRejected that also restores the quota as a transport failure would.
ForwardRejectedRollsBack(r) ==
    /\ pc[r] = "forward"
    /\ calls' = [calls EXCEPT ![r] = @ + 1]
    /\ api_keys' = [k \in Keys |->
                       IF k = key[r].id /\ api_keys[k].exists
                       THEN [api_keys[k] EXCEPT !.quota_used = @ - cost, !.last_used = now,
                                                !.is_active = FALSE,
                                                !.error_count = key[r].error_count + 1,
                                                !.last_checked = now]
                       ELSE api_keys[k]]
    /\ pc' = [pc EXCEPT ![r] = "relayed_rejection"]
    /\ UNCHANGED <<cost, now, keyMutex, key, err, cancelled, refreshVars, adminVars>>

\* s.client.Do returns 401 or 403: the handler deactivates the key and relays.
ForwardRejected(r) ==
    /\ pc[r] = "forward"
    /\ calls' = [calls EXCEPT ![r] = @ + 1]
    /\ api_keys' = UpdateAPIKeyStatus(key[r].id, FALSE, key[r].error_count + 1)
    /\ pc' = [pc EXCEPT ![r] = "relayed_rejection"]
    /\ UNCHANGED <<cost, now, keyMutex, key, err, cancelled, refreshVars, adminVars>>

\* ForwardRelayed that marks the key healthy again when the upstream answers.
ForwardRelayedReactivates(r) ==
    /\ pc[r] = "forward"
    /\ calls' = [calls EXCEPT ![r] = @ + 1]
    /\ api_keys' = UpdateAPIKeyStatus(key[r].id, TRUE, 0)
    /\ pc' = [pc EXCEPT ![r] = "relayed"]
    /\ UNCHANGED <<cost, now, keyMutex, key, err, cancelled, refreshVars, adminVars>>

\* ForwardRelayed that restores the quota when the upstream answers an error status.
ForwardRelayedRollsBack(r) ==
    /\ pc[r] = "forward"
    /\ calls' = [calls EXCEPT ![r] = @ + 1]
    /\ \E status \in {"2xx", "4xx5xx"} :
          api_keys' = IF status = "4xx5xx"
                      THEN IncrementAPIKeyUsage(key[r].id, 0 - cost)
                      ELSE api_keys
    /\ pc' = [pc EXCEPT ![r] = "relayed"]
    /\ UNCHANGED <<cost, now, keyMutex, key, err, cancelled, refreshVars, adminVars>>

\* s.client.Do returns any other status: the handler relays it.
ForwardRelayed(r) ==
    /\ pc[r] = "forward"
    /\ calls' = [calls EXCEPT ![r] = @ + 1]
    /\ pc' = [pc EXCEPT ![r] = "relayed"]
    /\ UNCHANGED <<api_keys, cost, now, keyMutex, key, err, cancelled, refreshVars, adminVars>>

\* The caller gives up while the handler is in s.client.Do or copies the
\* response: c.Request's context is done.  The handler never reads it and Do
\* builds the upstream request with http.NewRequest, without a context.
Cancel(r) ==
    /\ pc[r] = "forward"
    /\ ~cancelled[r]
    /\ cancelled' = [cancelled EXCEPT ![r] = TRUE]
    /\ UNCHANGED <<api_keys, cost, now, keyMutex, pc, key, err, calls, refreshVars, adminVars>>

\* The clock advances.
Tick ==
    /\ now < MaxTime
    /\ now' = now + 1
    /\ UNCHANGED <<api_keys, cost, proxyVars, cancelled, refreshVars, adminVars>>

\* ---------------------------------------------------------- ledger failures
\* The SELECT of GetAvailableAPIKey fails: the handler unlocks and answers 503.
QueryFails(r) ==
    /\ pc[r] = "locked"
    /\ err' = [err EXCEPT ![r] = "dbError"]
    /\ keyMutex' = 0
    /\ pc' = [pc EXCEPT ![r] = "d503"]
    /\ UNCHANGED <<api_keys, cost, now, key, calls, cancelled, refreshVars, adminVars>>

\* The reset UPDATE of GetAvailableAPIKey fails: (nil, err) comes back, the
\* handler unlocks and answers 503.
ResetFails(r) ==
    /\ pc[r] = "selected"
    /\ ShouldReset(key[r], now)
    /\ err' = [err EXCEPT ![r] = "dbError"]
    /\ key' = [key EXCEPT ![r] = NoKey]
    /\ keyMutex' = 0
    /\ pc' = [pc EXCEPT ![r] = "d503"]
    /\ UNCHANGED <<api_keys, cost, now, calls, cancelled, refreshVars, adminVars>>

\* ReserveFails that goes on to the upstream call although the increment failed.
ReserveFailsCallsUpstream(r) ==
    /\ pc[r] = "reserve"
    /\ keyMutex' = 0
    /\ pc' = [pc EXCEPT ![r] = "forward"]
    /\ UNCHANGED <<api_keys, cost, now, key, err, calls, cancelled, refreshVars, adminVars>>

\* IncrementAPIKeyUsage fails: the handler unlocks and answers 500.
ReserveFails(r) ==
    /\ pc[r] = "reserve"
    /\ keyMutex' = 0
    /\ pc' = [pc EXCEPT ![r] = "d500"]
    /\ UNCHANGED <<api_keys, cost, now, key, err, calls, cancelled, refreshVars, adminVars>>

\* s.client.Do fails and so does the restoring update: logged, 502 all the same.
ForwardErrorRestoreFails(r) ==
    /\ pc[r] = "forward"
    /\ calls' = [calls EXCEPT ![r] = @ + 1]
    /\ pc' = [pc EXCEPT ![r] = "d502"]
    /\ UNCHANGED <<api_keys, cost, now, keyMutex, key, err, cancelled, refreshVars, adminVars>>

\* 401 or 403 and UpdateAPIKeyStatus fails: logged, the response is relayed.
ForwardRejectedStatusFails(r) ==
    /\ pc[r] = "forward"
    /\ calls' = [calls EXCEPT ![r] = @ + 1]
    /\ pc' = [pc EXCEPT ![r] = "relayed_rejection"]
    /\ UNCHANGED <<api_keys, cost, now, keyMutex, key, err, cancelled, refreshVars, adminVars>>

\* ---------------------------------------------------------- refreshAPIKeys
\* What refreshSingleAPIKey reads of a key of the slice.
ListRow(id) ==
    [exists |-> api_keys[id].exists,
     quota_limit |-> api_keys[id].quota_limit,
     is_active |-> api_keys[id].is_active,
     error_count |-> api_keys[id].error_count]

NoListRow == [exists |-> FALSE, quota_limit |-> 0, is_active |-> FALSE, error_count |-> 0]

\* for _, key := range keys: the next id of the slice after i, NumKeys + 1 at its end.
NextKey(list, i) ==
    IF \E j \in Keys : j > i /\ list[j].exists
    THEN CHOOSE j \in Keys : /\ j > i /\ list[j].exists
                             /\ \A h \in Keys : (h > i /\ list[h].exists) => j <= h
    ELSE NumKeys + 1

\* The loop moves on to the next key, or the handler answers.
Advance(list, i) ==
    /\ ridx' = NextKey(list, i)
    /\ rpc' = IF NextKey(list, i) > NumKeys THEN "done" ELSE "check"

\* RefreshList that serialises the refresh with the Selects: it takes keyMutex.
RefreshListLocks ==
    /\ rpc = "start"
    /\ keyMutex = 0
    /\ keyMutex' = NumReqs + 1
    /\ rkeys' = [k \in Keys |-> ListRow(k)]
    /\ Advance([k \in Keys |-> ListRow(k)], 0)
    /\ UNCHANGED <<api_keys, cost, now, pc, key, err, calls, cancelled, rvalid,
                   updatedCount, refreshErrors, adminVars>>

\* keys, err := s.db.GetAllAPIKeys()
RefreshList ==
    /\ rpc = "start"
    /\ rkeys' = [k \in Keys |-> ListRow(k)]
    /\ Advance([k \in Keys |-> ListRow(k)], 0)
    /\ UNCHANGED <<api_keys, cost, now, proxyVars, rvalid, updatedCount, refreshErrors, adminVars>>

\* GetAllAPIKeys fails: 500.
RefreshListFails ==
    /\ rpc = "start"
    /\ rpc' = "done"
    /\ UNCHANGED <<api_keys, cost, now, proxyVars, rkeys, ridx, rvalid, updatedCount,
                   refreshErrors, adminVars>>

\* RefreshCheckFails with "break" for "continue": the first failed probe ends
\* the loop.
RefreshCheckFailsBreaks ==
    /\ rpc = "check"
    /\ refreshErrors' = refreshErrors + 1
    /\ rpc' = "done"
    /\ UNCHANGED <<api_keys, cost, now, proxyVars, rkeys, ridx, rvalid, updatedCount, adminVars>>

\* CheckAPIKey fails: refreshSingleAPIKey returns the error, the loop logs it
\* and continues.
RefreshCheckFails ==
    /\ rpc = "check"
    /\ refreshErrors' = refreshErrors + 1
    /\ Advance(rkeys, ridx)
    /\ UNCHANGED <<api_keys, cost, now, proxyVars, rkeys, rvalid, updatedCount, adminVars>>

\* refreshSingleAPIKey up to the status update, CheckAPIKey having returned
\* (isValid, remainingQuota), which is (false, 0) or (true, n > 0):
\* s.db.UpdateAPIKeyUsage(key.ID, key.QuotaLimit-remainingQuota), whose error
\* is dropped (written = FALSE is the failed UPDATE), then key.IsActive != isValid.
CheckAndOverwrite(remainingQuota, written) ==
    LET isValid == remainingQuota > 0 IN
    /\ api_keys' = IF written
                   THEN UpdateAPIKeyUsage(ridx, rkeys[ridx].quota_limit - remainingQuota)
                   ELSE api_keys
    /\ rvalid' = isValid
    /\ IF rkeys[ridx].is_active # isValid
       THEN /\ rpc' = "status"
            /\ UNCHANGED <<ridx, updatedCount>>
       ELSE /\ Advance(rkeys, ridx)
            /\ updatedCount' = updatedCount + 1
    /\ UNCHANGED <<cost, now, proxyVars, rkeys, refreshErrors, adminVars>>

\* The probe answers and the usage is overwritten.
RefreshCheck ==
    /\ rpc = "check"
    /\ \E remainingQuota \in 0..MaxRemaining : CheckAndOverwrite(remainingQuota, TRUE)

\* The probe answers and UpdateAPIKeyUsage fails: the error is not looked at.
RefreshCheckUsageFails ==
    /\ rpc = "check"
    /\ \E remainingQuota \in 0..MaxRemaining : CheckAndOverwrite(remainingQuota, FALSE)

\* s.db.UpdateAPIKeyStatus(key.ID, isValid, key.ErrorCount+1)
RefreshStatus ==
    /\ rpc = "status"
    /\ rkeys[ridx].error_count < MaxErrors
    /\ api_keys' = UpdateAPIKeyStatus(ridx, rvalid, rkeys[ridx].error_count + 1)
    /\ updatedCount' = updatedCount + 1
    /\ Advance(rkeys, ridx)
    /\ UNCHANGED <<cost, now, proxyVars, rkeys, rvalid, refreshErrors, adminVars>>

\* UpdateAPIKeyStatus fails: refreshSingleAPIKey returns the error.
RefreshStatusFails ==
    /\ rpc = "status"
    /\ refreshErrors' = refreshErrors + 1
    /\ Advance(rkeys, ridx)
    /\ UNCHANGED <<api_keys, cost, now, proxyVars, rkeys, rvalid, updatedCount, adminVars>>

\* ------------------------------------------------- administrative handlers
NoUpdate == [id |-> 0, is_active |-> FALSE, error_count |-> 0]

\* addAPIKey: a quota limit <= 0 is replaced by cfg.DefaultQuotaLimit (any
\* configured value, 0 included), a zero refreshes_at by the first of next month.
\* INSERT INTO api_keys (key, quota_limit, quota_used, is_active, refreshes_at)
\* VALUES (?, ?, 0, TRUE, ?) with an AUTOINCREMENT id.
addAPIKey ==
    /\ apc = "idle"
    /\ adminOps < MaxAdminOps
    /\ seq < NumKeys
    /\ \E quotaLimit \in Limits, refreshesAt \in {0, StartTime - 1, StartTime}, off \in TZOffsets :
        api_keys' = [api_keys EXCEPT ![seq + 1] =
            [exists |-> TRUE, quota_limit |-> quotaLimit, quota_used |-> 0,
             is_active |-> TRUE, last_used |-> 0, last_checked |-> 0, error_count |-> 0,
             refreshes_at |-> IF refreshesAt = 0 THEN NextRefresh(now, off)
                              ELSE refreshesAt]]
    /\ seq' = seq + 1
    /\ adminOps' = adminOps + 1
    /\ UNCHANGED <<cost, now, proxyVars, refreshVars, apc, akey, secret, masked>>

\* deleteAPIKey: DELETE FROM api_keys WHERE id = ?
deleteAPIKey ==
    /\ apc = "idle"
    /\ adminOps < MaxAdminOps
    /\ \E id \in Keys :
        /\ api_keys[id].exists
        /\ api_keys' = [api_keys EXCEPT ![id] = NoRow]
    /\ adminOps' = adminOps + 1
    /\ UNCHANGED <<cost, now, proxyVars, refreshVars, seq, apc, akey, secret, masked>>

\* updateAPIKey, "Get current key": key, err := s.db.GetAPIKey(id)
updateAPIKeyGet ==
    /\ apc = "idle"
    /\ adminOps < MaxAdminOps
    /\ \E id \in Keys, isActive \in BOOLEAN :
        /\ api_keys[id].exists
        /\ akey' = [id |-> id, is_active |-> isActive,
                    error_count |-> api_keys[id].error_count]
    /\ apc' = "update"
    /\ adminOps' = adminOps + 1
    /\ UNCHANGED <<api_keys, cost, now, proxyVars, refreshVars, seq, secret, masked>>

\* updateAPIKey: s.db.UpdateAPIKeyStatus(id, *req.IsActive, key.ErrorCount)
updateAPIKeySet ==
    /\ apc = "update"
    /\ api_keys' = UpdateAPIKeyStatus(akey.id, akey.is_active, akey.error_count)
    /\ apc' = "idle"
    /\ akey' = NoUpdate
    /\ UNCHANGED <<cost, now, proxyVars, refreshVars, seq, adminOps, secret, masked>>

\* updateAPIKey: UpdateAPIKeyStatus fails, 500.
updateAPIKeySetFails ==
    /\ apc = "update"
    /\ apc' = "idle"
    /\ akey' = NoUpdate
    /\ UNCHANGED <<api_keys, cost, now, proxyVars, refreshVars, seq, adminOps, secret, masked>>

\* ------------------------------------------------- masking of key.Key
\* The bytes secrets are made of, and the secrets of 1..MaxSecretLen bytes
\* (addAPIKey binds key as required: it is never empty).
Chars == {"a", "b"}
Secrets == UNION {[1..n -> Chars] : n \in 1..MaxSecretLen}

Stars == <<"*", "*", "*", "*">>

\* func maskAPIKey(key string) string
maskAPIKey(str) ==
    IF Len(str) < 4 THEN Stars ELSE SubSeq(str, 1, 4) \o Stars

\* getAllAPIKeys, getAPIKey, addAPIKey: key.Key = maskAPIKey(key.Key), then
\* c.JSON(..., key)
respondMasked ==
    /\ masked = <<>>
    /\ masked' = maskAPIKey(secret)
    /\ UNCHANGED <<api_keys, cost, now, proxyVars, refreshVars, seq, adminOps, apc, akey, secret>>

\* ------------------------------------------------------------------- Init
\* No administrative handler is answering with a key.
NoKeyShown ==
    /\ secret = <<>>
    /\ masked = <<>>

InitHandlers ==
    /\ now = StartTime
    /\ keyMutex = 0
    /\ pc = [r \in Reqs |-> "start"]
    /\ key = [r \in Reqs |-> NoKey]
    /\ err = [r \in Reqs |-> "nil"]
    /\ calls = [r \in Reqs |-> 0]
    /\ cancelled = [r \in Reqs |-> FALSE]
    /\ rpc = "start"
    /\ rkeys = [k \in Keys |-> NoListRow]
    /\ ridx = 0
    /\ rvalid = FALSE
    /\ updatedCount = 0
    /\ refreshErrors = 0
    /\ apc = "idle"
    /\ akey = NoUpdate
    /\ adminOps = 0

\* Rows the table can hold when the server starts on an existing database.
\* AddAPIKey always stores a refreshes_at; quota_used lies in 0..quota_limit
\* (0..1 for an unlimited key); a key with usage has been used.  An inactive
\* row is never read by a proxy request.
InitRows ==
    {row \in [exists : {TRUE}, quota_limit : Limits, quota_used : 0..MaxLimit,
              is_active : BOOLEAN, last_used : {0, 1}, last_checked : {0},
              error_count : {0},
              refreshes_at : {StartTime - 1, StartTime}] :
        /\ row.quota_used <= (IF row.quota_limit = 0 THEN 1 ELSE row.quota_limit)
        /\ (row.quota_used > 0 => row.last_used = 1)
        /\ (~row.is_active => row.quota_used = 0 /\ row.last_used = 0)}

\* Rows as AddAPIKey inserts them: no usage, active, never used.
AddedRows == {row \in InitRows : row.is_active /\ row.quota_used = 0 /\ row.last_used = 0}

InitPool ==
    /\ NoKeyShown
    /\ api_keys \in [Keys -> InitRows \cup {NoRow}]
    /\ seq = NumKeys
    /\ cost \in 0..MaxCost
    /\ InitHandlers

InitAdded ==
    /\ NoKeyShown
    /\ api_keys \in [Keys -> AddedRows \cup {NoRow}]
    /\ seq \in 0..NumKeys
    /\ \A k \in Keys : api_keys[k].exists => k <= seq
    /\ cost \in 0..MaxCost
    /\ InitHandlers

NextProxy ==
    \/ \E r \in Reqs : Lock(r)
    \/ \E r \in Reqs : Query(r)
    \/ \E r \in Reqs : CheckReset(r)
    \/ \E r \in Reqs : Reserve(r)
    \/ \E r \in Reqs : ForwardError(r)
    \/ \E r \in Reqs : ForwardRejected(r)
    \/ \E r \in Reqs : ForwardRelayed(r)
    \/ Tick

\* Proxy requests only, on an existing database: no health refresh, no
\* administrative write, and every ledger statement succeeds.
SpecProxy == InitPool /\ [][NextProxy]_vars

NextFaults ==
    \/ \E r \in Reqs : Lock(r)
    \/ \E r \in Reqs : Query(r)
    \/ \E r \in Reqs : CheckReset(r)
    \/ \E r \in Reqs : Reserve(r)
    \/ \E r \in Reqs : ForwardError(r)
    \/ \E r \in Reqs : ForwardRejected(r)
    \/ \E r \in Reqs : ForwardRelayed(r)
    \/ \E r \in Reqs : QueryFails(r)
    \/ \E r \in Reqs : ResetFails(r)
    \/ \E r \in Reqs : ReserveFails(r)
    \/ \E r \in Reqs : ForwardErrorRestoreFails(r)
    \/ \E r \in Reqs : ForwardRejectedStatusFails(r)
    \/ Tick

\* Proxy requests on an existing database, every ledger statement free to fail.
SpecFaults == InitPool /\ [][NextFaults]_vars

\* The steps of the handler of request r, ledger failures included.
proxyRequest(r) ==
    \/ Lock(r)
    \/ Query(r)
    \/ CheckReset(r)
    \/ Reserve(r)
    \/ ForwardError(r)
    \/ ForwardRejected(r)
    \/ ForwardRelayed(r)
    \/ QueryFails(r)
    \/ ResetFails(r)
    \/ ReserveFails(r)
    \/ ForwardErrorRestoreFails(r)
    \/ ForwardRejectedStatusFails(r)

\* Every handler goroutine keeps being scheduled: a statement that can run
\* does run.  Ledger statements return, and s.client.Do returns a response or
\* an error, after the 30 s Timeout of the http.Client at the latest.
SpecLive == InitPool /\ [][NextFaults]_vars /\ \A r \in Reqs : WF_vars(proxyRequest(r))

\* An administrative handler has read or stored a key of any secret and is to
\* answer with it; the table plays no part.
InitMask ==
    /\ secret \in Secrets
    /\ masked = <<>>
    /\ api_keys = [k \in Keys |-> NoRow]
    /\ seq = 0
    /\ cost = 0
    /\ InitHandlers

NextMask == respondMasked

SpecMask == InitMask /\ [][NextMask]_vars

NextCancel ==
    \/ \E r \in Reqs : Lock(r)
    \/ \E r \in Reqs : Query(r)
    \/ \E r \in Reqs : CheckReset(r)
    \/ \E r \in Reqs : Reserve(r)
    \/ \E r \in Reqs : ForwardError(r)
    \/ \E r \in Reqs : ForwardRejected(r)
    \/ \E r \in Reqs : ForwardRelayed(r)
    \/ \E r \in Reqs : Cancel(r)
    \/ Tick

\* Proxy requests whose callers may cancel them while the upstream call is
\* under way.
SpecCancel == InitPool /\ [][NextCancel]_vars

NextRefreshing ==
    \/ \E r \in Reqs : Lock(r)
    \/ \E r \in Reqs : Query(r)
    \/ \E r \in Reqs : CheckReset(r)
    \/ \E r \in Reqs : Reserve(r)
    \/ \E r \in Reqs : ForwardError(r)
    \/ \E r \in Reqs : ForwardRejected(r)
    \/ \E r \in Reqs : ForwardRelayed(r)
    \/ RefreshList
    \/ RefreshListFails
    \/ RefreshCheck
    \/ RefreshCheckUsageFails
    \/ RefreshCheckFails
    \/ RefreshStatus
    \/ RefreshStatusFails

\* Proxy requests and one run of refreshAPIKeys, on keys as they were added
\* and within one tick of the clock, every statement of the refresh free to fail.
SpecRefresh == InitAdded /\ [][NextRefreshing]_vars

NextProbe ==
    \/ \E r \in Reqs : Lock(r)
    \/ \E r \in Reqs : Query(r)
    \/ \E r \in Reqs : CheckReset(r)
    \/ \E r \in Reqs : Reserve(r)
    \/ \E r \in Reqs : ForwardError(r)
    \/ \E r \in Reqs : ForwardRejected(r)
    \/ \E r \in Reqs : ForwardRelayed(r)
    \/ RefreshList
    \/ RefreshCheck
    \/ RefreshCheckFails
    \/ RefreshStatus

\* Proxy requests and one run of refreshAPIKeys whose ledger statements all
\* succeed; the probe itself may fail.
SpecProbe == InitAdded /\ [][NextProbe]_vars

NextAdmin ==
    \/ \E r \in Reqs : Lock(r)
    \/ \E r \in Reqs : Query(r)
    \/ \E r \in Reqs : CheckReset(r)
    \/ \E r \in Reqs : Reserve(r)
    \/ \E r \in Reqs : ForwardError(r)
    \/ \E r \in Reqs : ForwardRejected(r)
    \/ \E r \in Reqs : ForwardRelayed(r)
    \/ addAPIKey
    \/ deleteAPIKey
    \/ updateAPIKeyGet
    \/ updateAPIKeySet
    \/ updateAPIKeySetFails
    \/ Tick

\* Proxy requests and the administrative handlers, on keys as they were added.
SpecAdmin == InitAdded /\ [][NextAdmin]_vars

\* A table of one key, as AddAPIKey inserted it.
InitOneAdded ==
    /\ InitAdded
    /\ seq = 1
    /\ api_keys[1].exists

NextStatus ==
    \/ \E r \in Reqs : Lock(r)
    \/ \E r \in Reqs : Query(r)
    \/ \E r \in Reqs : CheckReset(r)
    \/ \E r \in Reqs : Reserve(r)
    \/ \E r \in Reqs : ForwardError(r)
    \/ \E r \in Reqs : ForwardRejected(r)
    \/ \E r \in Reqs : ForwardRelayed(r)
    \/ RefreshList
    \/ RefreshCheck
    \/ RefreshCheckFails
    \/ RefreshStatus
    \/ updateAPIKeyGet
    \/ updateAPIKeySet

\* Everything that writes is_active of one key: proxy requests, one run of
\* refreshAPIKeys and updateAPIKey requests, within one tick of the clock.
SpecStatus == InitOneAdded /\ [][NextStatus]_vars

\* Rows of a pool in rotation: eligible keys that were used before, up to the
\* current second (last_used is CURRENT_TIMESTAMP, a whole number of seconds).
RotationRows ==
    {row \in [exists : {TRUE}, quota_limit : Limits, quota_used : 0..MaxLimit,
              is_active : {TRUE}, last_used : 1..StartTime, last_checked : {0},
              error_count : {0},
              refreshes_at : {StartTime - 1, StartTime}] :
        Eligible(row)}

\* NumKeys eligible keys of equal utilisation, no two of them last used in the
\* same second.
InitRotation ==
    /\ NoKeyShown
    /\ api_keys \in [Keys -> RotationRows]
    /\ \A j, k \in Keys :
        /\ api_keys[j].quota_used * Denom(api_keys[k])
             = api_keys[k].quota_used * Denom(api_keys[j])
        /\ (j # k => api_keys[j].last_used # api_keys[k].last_used)
    /\ seq = NumKeys
    /\ cost \in 0..MaxCost
    /\ InitHandlers

\* Selects only: no request gets its upstream answer, so nothing but the
\* Selects and the clock changes the pool.
NextRotation ==
    \/ \E r \in Reqs : Lock(r)
    \/ \E r \in Reqs : Query(r)
    \/ \E r \in Reqs : CheckReset(r)
    \/ \E r \in Reqs : Reserve(r)
    \/ Tick

\* NumReqs Selects, one after the other under keyMutex, on a pool in rotation.
SpecRotation == InitRotation /\ [][NextRotation]_vars

\* One active key with quota_limit = NumReqs, no usage and a refreshes_at the
\* clock never passes; cost_per_request = 1.
InitOneKey ==
    /\ NoKeyShown
    /\ api_keys = [k \in Keys |->
                     IF k = 1
                     THEN [exists |-> TRUE, quota_limit |-> NumReqs, quota_used |-> 0,
                           is_active |-> TRUE, last_used |-> 0, last_checked |-> 0,
                           error_count |-> 0, refreshes_at |-> MaxTime]
                     ELSE NoRow]
    /\ seq = 1
    /\ cost = 1
    /\ InitHandlers

\* NumReqs concurrent proxy requests against that one key.
SpecOneKey == InitOneKey /\ [][NextProxy]_vars

\* ================================================================= claims
InSelect == {"locked", "selected", "reserve"}
Reserved == {"forward", "relayed", "relayed_rejection"}

\* The requests that hold a reservation on key k: reserved, not rolled back.
Holding(k) == {r \in Reqs : pc[r] \in Reserved /\ key[r].id = k}

\* The eligibility predicate of the specification, on a row of the table.
SpecEligible(row) ==
    row.exists /\ row.is_active /\ (row.quota_limit = 0 \/ row.quota_used < row.quota_limit)

\* ---- C1
\* C1 as stated: while no request has rolled its reservation back, every key
\* with quota_limit > 0 has quota_used <= quota_limit, whatever the cost.
C1_NoOvershootAnyCost ==
    (\A r \in Reqs : pc[r] # "d502") =>
        \A k \in Keys :
            (api_keys[k].exists /\ api_keys[k].quota_limit > 0) =>
                api_keys[k].quota_used <= api_keys[k].quota_limit

\* C1 amended: with a cost of 0 or 1, every key with quota_limit > 0 has
\* quota_used <= quota_limit in every state proxy requests reach.
C1_NoOvershootUnitCost ==
    cost <= 1 =>
        \A k \in Keys :
            (api_keys[k].exists /\ api_keys[k].quota_limit > 0) =>
                api_keys[k].quota_used <= api_keys[k].quota_limit

\* Two requests hold reservations of cost 1 on one key, which they have filled
\* exactly to its limit.
C1_Witness ==
    \E k \in Keys :
        /\ cost = 1
        /\ Cardinality(Holding(k)) >= 2
        /\ api_keys[k].quota_limit > 0
        /\ api_keys[k].quota_used = api_keys[k].quota_limit

\* ---- C2
\* C2: NumReqs concurrent requests with cost 1 on one active key with
\* quota_limit = NumReqs and no usage: as long as no request has reconciled a
\* transport failure or a rejection, no Select has failed, and once every
\* request has reserved, quota_used is exactly NumReqs.
C2_AllSelectsSucceed ==
    (\A r \in Reqs : pc[r] \notin {"d502", "relayed_rejection"}) =>
        /\ \A r \in Reqs : pc[r] \notin {"d503", "d500"} /\ err[r] = "nil"
        /\ (\A r \in Reqs : pc[r] \in Reserved) => api_keys[1].quota_used = NumReqs

\* Every request has reserved and is waiting for the upstream.
C2_Witness ==
    /\ \A r \in Reqs : pc[r] = "forward" /\ key[r].id = 1
    /\ api_keys[1].quota_used = NumReqs

\* ---- C3
\* C3: at most one request is between its Lock and its Unlock (scan, reset
\* and increment), and it is the one that holds keyMutex.
C3_OneSelectAtATime ==
    /\ Cardinality({r \in Reqs : pc[r] \in InSelect}) <= 1
    /\ \A r \in Reqs : pc[r] \in InSelect <=> keyMutex = r

\* One request has scanned and not yet incremented while another waits for the lock.
C3_Witness ==
    \E r1, r2 \in Reqs :
        /\ pc[r1] = "reserve" /\ keyMutex = r1
        /\ pc[r2] = "start"
        /\ api_keys[key[r1].id].quota_used = key[r1].quota_used

\* ---- C4
\* C4: a key with quota_limit > 0 is never at quota_limit + cost or beyond:
\* reservations exceed the limit by less than one cost.  (With cost = 0 the
\* bound is the limit itself, where a key exhausted before the requests stays.)
C4_OvershootBelowCost ==
    \A k \in Keys :
        (api_keys[k].exists /\ api_keys[k].quota_limit > 0) =>
            \/ api_keys[k].quota_used < api_keys[k].quota_limit + cost
            \/ cost = 0 /\ api_keys[k].quota_used = api_keys[k].quota_limit

\* A reservation of cost 2 has taken a key one unit beyond its limit.
C4_Witness ==
    \E k \in Keys :
        /\ cost = 2
        /\ Holding(k) # {}
        /\ api_keys[k].quota_limit > 0
        /\ api_keys[k].quota_used = api_keys[k].quota_limit + 1

\* ---- C5
\* The pool is one key, active, exhausted, with refreshes_at in the past.
OnlyStaleExhausted ==
    \E k \in Keys :
        /\ api_keys[k].exists /\ api_keys[k].is_active
        /\ api_keys[k].quota_limit > 0
        /\ api_keys[k].quota_used = api_keys[k].quota_limit
        /\ api_keys[k].refreshes_at # 0 /\ api_keys[k].refreshes_at < now
        /\ \A j \in Keys \ {k} : ~api_keys[j].exists

\* C5: a stale key is rolled over before its eligibility is evaluated: the
\* scan of a pool whose only key is active, exhausted and stale does not end
\* in PoolExhausted.
C5_StaleKeyRevived ==
    [][\A r \in Reqs :
          (pc[r] = "locked" /\ pc'[r] # "locked" /\ OnlyStaleExhausted) => pc'[r] # "d503"]_vars

\* ---- C6
\* C6: a scan that finds no eligible key ends the request with 503: the lock
\* is released, no row of the table changes, no upstream call is or will be
\* made.
C6_ExhaustedPoolFails ==
    /\ [][\A r \in Reqs :
            (pc[r] = "locked" /\ pc'[r] # "locked" /\ \A k \in Keys : ~SpecEligible(api_keys[k]))
                => (pc'[r] = "d503" /\ keyMutex' = 0 /\ api_keys' = api_keys /\ calls'[r] = 0)]_vars
    /\ [][\A r \in Reqs : pc[r] = "d503" => (pc'[r] = "d503" /\ calls'[r] = 0)]_vars

\* Scenario B: a request got ErrNoRows from a pool of an exhausted active key
\* and an inactive key that has quota left.
C6_Witness ==
    \E r \in Reqs, a, b \in Keys :
        /\ pc[r] = "d503" /\ err[r] = "ErrNoRows" /\ keyMutex # r
        /\ api_keys[a].exists /\ api_keys[a].is_active /\ api_keys[a].quota_limit > 0
        /\ api_keys[a].quota_used >= api_keys[a].quota_limit
        /\ api_keys[b].exists /\ ~api_keys[b].is_active
        /\ api_keys[b].quota_used < api_keys[b].quota_limit

\* ---- C7
\* C7: the key a scan returns is, in the table the scan reads, active and
\* either unlimited or below its limit; and a scan never reports ErrNoRows
\* while an active unlimited key is in the table.
C7_ReturnedKeyEligible ==
    /\ [][\A r \in Reqs :
            (pc[r] = "locked" /\ pc'[r] = "selected") =>
                LET row == api_keys[key'[r].id] IN
                /\ row.exists /\ row.is_active
                /\ (row.quota_limit = 0 \/ row.quota_used < row.quota_limit)
                /\ key'[r].quota_used = row.quota_used
                /\ key'[r].quota_limit = row.quota_limit]_vars
    /\ [][\A r \in Reqs :
            (pc[r] = "locked" /\ err'[r] = "ErrNoRows") =>
                ~\E k \in Keys : api_keys[k].exists /\ api_keys[k].is_active
                                 /\ api_keys[k].quota_limit = 0]_vars

\* A scan returned an unlimited key that already has usage.
C7_Witness ==
    \E r \in Reqs :
        /\ pc[r] = "selected"
        /\ key[r].quota_limit = 0 /\ key[r].quota_used >= 1 /\ key[r].is_active

\* ---- C8
\* A row as the rollover of the specification leaves it at time t.
RolledOver(row, t) ==
    IF row.refreshes_at # 0 /\ row.refreshes_at < t THEN [row EXCEPT !.quota_used = 0] ELSE row

\* C8: the key a scan returns has the least utilisation among the keys that
\* are eligible once stale keys are rolled over, earliest last_used first
\* among equals.
C8_LeastUtilisedAfterRollover ==
    [][\A r \in Reqs :
          (pc[r] = "locked" /\ pc'[r] = "selected") =>
              \A j \in Keys :
                  SpecEligible(RolledOver(api_keys[j], now)) =>
                      LET a == RolledOver(api_keys[j], now)
                          b == RolledOver(api_keys[key'[r].id], now)
                      IN  ~(\/ a.quota_used * Denom(b) < b.quota_used * Denom(a)
                            \/ /\ a.quota_used * Denom(b) = b.quota_used * Denom(a)
                               /\ a.last_used < b.last_used)]_vars

\* ---- C9
\* The requests whose reservation on key k was made in the quota period the
\* key is in (no rollover since) and has not been rolled back.
Outstanding(k) ==
    {r \in Holding(k) : key[r].refreshes_at = api_keys[k].refreshes_at}

\* C9: a rollback takes back the request's own reservation and nothing else,
\* also when Selects that roll the key over interleave: quota_used is never
\* below what the reservations still outstanding in the period add up to.
C9_RollbackOnlyOwnReservation ==
    \A k \in Keys :
        api_keys[k].exists => api_keys[k].quota_used >= cost * Cardinality(Outstanding(k))

\* ---- C10
\* C10: quota_used of every key is >= 0 in every reachable state.
C10_QuotaUsedNonNegative ==
    \A k \in Keys : api_keys[k].quota_used >= 0

\* ---- C11
\* C11: the step that reconciles a 401 or 403 leaves the key used inactive,
\* with error_count one above the value the request read at its Select and
\* (when no other request has reconciled a rejection of the key since) one
\* above the row's, and with quota_used as the reservation left it; it is the
\* request's one upstream call and the upstream response is relayed.
C11_RejectionDeactivatesKey ==
    [][\A r \in Reqs :
          (pc[r] = "forward" /\ pc'[r] \notin {"forward", "d502", "relayed"}) =>
              LET k == key[r].id IN
              /\ pc'[r] = "relayed_rejection"
              /\ calls[r] = 0 /\ calls'[r] = 1
              /\ ~api_keys'[k].is_active
              /\ api_keys'[k].error_count = key[r].error_count + 1
              /\ (api_keys[k].error_count = key[r].error_count =>
                      api_keys'[k].error_count = api_keys[k].error_count + 1)
              /\ api_keys'[k].quota_used = api_keys[k].quota_used
              /\ \A j \in Keys \ {k} : api_keys'[j] = api_keys[j]]_vars

\* Scenario D: a request reserved a positive cost on an active key, got 401 or
\* 403 and relayed it: the key is inactive, its error_count is 1 and its
\* quota_used still holds the reservation.
C11_Witness ==
    \E r \in Reqs :
        /\ pc[r] = "relayed_rejection" /\ calls[r] = 1 /\ cost > 0
        /\ key[r].is_active /\ key[r].error_count = 0
        /\ ~api_keys[key[r].id].is_active
        /\ api_keys[key[r].id].error_count = 1
        /\ api_keys[key[r].id].quota_used = key[r].quota_used + cost

\* ---- C12
\* C12: no increment of error_count is lost: the error_count of a key (0 when
\* the requests start) is the number of requests that reserved it and have
\* reconciled a 401 or 403.
C12_NoLostErrorCount ==
    \A k \in Keys :
        api_keys[k].exists =>
            api_keys[k].error_count =
                Cardinality({r \in Reqs : pc[r] = "relayed_rejection" /\ key[r].id = k})

\* ---- C13
\* C13: a transport failure ends the request with 502 after its one upstream
\* call and its one Select; the step changes no key's is_active or error_count,
\* and a request that answered 502 makes no further call and takes no other key.
C13_TransportFailureIsFinal ==
    /\ [][\A r \in Reqs :
            (pc[r] = "forward" /\ pc'[r] = "d502") =>
                /\ calls[r] = 0 /\ calls'[r] = 1
                /\ key'[r] = key[r] /\ key[r].id # 0 /\ err'[r] = "nil"
                /\ \A k \in Keys :
                       /\ api_keys'[k].is_active = api_keys[k].is_active
                       /\ api_keys'[k].error_count = api_keys[k].error_count]_vars
    /\ [][\A r \in Reqs :
            pc[r] = "d502" =>
                (pc'[r] = "d502" /\ calls'[r] = calls[r] /\ key'[r] = key[r])]_vars

\* A request answered 502 after one call; its key is still active with no
\* error counted, and another eligible key was left untried.
C13_Witness ==
    \E r \in Reqs, j \in Keys :
        /\ pc[r] = "d502" /\ calls[r] = 1
        /\ api_keys[key[r].id].is_active /\ api_keys[key[r].id].error_count = 0
        /\ j # key[r].id /\ Eligible(api_keys[j])

\* ---- C14
\* C14: relaying a response whose status is neither 401 nor 403 writes nothing
\* to the table, and a request that has relayed writes nothing afterwards.
C14_OtherStatusWritesNothing ==
    /\ [][\A r \in Reqs :
            (pc[r] = "forward" /\ pc'[r] = "relayed") =>
                (api_keys' = api_keys /\ calls'[r] = 1)]_vars
    /\ [][\A r \in Reqs : pc[r] = "relayed" => pc'[r] = "relayed"]_vars

\* A request relayed a response; its key holds the reservation of a positive
\* cost and is as active and as free of errors as it was.
C14_Witness ==
    \E r \in Reqs :
        /\ pc[r] = "relayed" /\ calls[r] = 1 /\ cost > 0
        /\ api_keys[key[r].id].quota_used = key[r].quota_used + cost
        /\ api_keys[key[r].id].is_active /\ api_keys[key[r].id].error_count = 0

\* ---- C15
\* C15: a request holds keyMutex only between its Lock and its Unlock: never
\* while it waits for the upstream, never after it has answered (503, 500,
\* 502 or a relayed response), and the upstream call is made without it.
C15_NoLockAcrossUpstreamCall ==
    /\ [](\A r \in Reqs :
            pc[r] \in {"forward", "d503", "d500", "d502", "relayed", "relayed_rejection"} =>
                keyMutex # r)
    /\ [][\A r \in Reqs : calls'[r] # calls[r] => (keyMutex # r /\ keyMutex' # r)]_vars

\* One request waits for the upstream while another holds the lock, inside
\* its Select.
C15_Witness ==
    \E r1, r2 \in Reqs :
        /\ pc[r1] = "forward" /\ calls[r1] = 0
        /\ pc[r2] \in InSelect /\ keyMutex = r2

\* ---- C16
\* The values quota_limit - r an overwrite may leave for a probe that reported
\* validity v: r = 0 when invalid, r > 0 when valid.
OverwriteValues(limit, v) ==
    IF v THEN {limit - r : r \in 1..MaxRemaining} ELSE {limit}

\* C16: the step of a Refresh that has the probe's answer (v, r) sets
\* quota_used of the key to quota_limit - r, and when the Refresh of a key
\* completes, is_active of the key equals v.
C16_RefreshOverwrites ==
    [][/\ (rpc = "check" /\ (rpc' = "status" \/ updatedCount' = updatedCount + 1)) =>
            api_keys'[ridx].quota_used \in OverwriteValues(api_keys[ridx].quota_limit, rvalid')
       /\ updatedCount' = updatedCount + 1 =>
            api_keys'[ridx].is_active = rvalid']_vars

\* ---- C17
\* C17: a step of Refresh changes error_count of a key only when the probe
\* reported it invalid and the key was active: never when the probe reported
\* it valid, never when the key was inactive already.
C17_ErrorCountOnlyOnInvalidation ==
    [][\A k \in Keys :
          (rpc \in {"check", "status"} /\ rpc' # rpc
           /\ api_keys'[k].error_count # api_keys[k].error_count
           /\ \A r \in Reqs : pc'[r] = pc[r]) =>
              (k = ridx /\ ~rvalid /\ rkeys[k].is_active)]_vars

\* ---- C18
\* C18: is_active of a key goes from false to true only in the UPDATE of an
\* updateAPIKey request that asked for it or in the status update of a
\* Refresh whose probe reported the key valid; never in a step of a proxy
\* request (scan, rollover, reservation, rollback, rejection).
C18_ReactivationOnlyByAdminOrProbe ==
    [][\A k \in Keys :
          (api_keys[k].exists /\ ~api_keys[k].is_active /\ api_keys'[k].is_active) =>
              /\ \A r \in Reqs : pc'[r] = pc[r]
              /\ \/ apc = "update" /\ apc' = "idle" /\ akey.id = k /\ akey.is_active
                 \/ rpc = "status" /\ rpc' # "status" /\ ridx = k /\ rvalid]_vars

\* A key that a request saw rejected, and so deactivated, is active again.
C18_Witness ==
    \E r \in Reqs :
        /\ pc[r] = "relayed_rejection"
        /\ api_keys[key[r].id].is_active
        /\ api_keys[key[r].id].last_checked # 0

\* ---- C19
\* C19: a request whose reservation, rollback or status update failed answers
\* 500: a request answers 502 only with its reservation taken back, relays a
\* 401 or 403 only with the key left inactive, and leaves its Select for the
\* upstream call only with the reservation written.
C19_LedgerFailureIsInternalError ==
    [][\A r \in Reqs :
          LET k == key[r].id IN
          /\ (pc[r] = "reserve" /\ pc'[r] = "forward") =>
                 api_keys'[k].quota_used = api_keys[k].quota_used + cost
          /\ (pc[r] = "forward" /\ pc'[r] = "d502") =>
                 api_keys'[k].quota_used = api_keys[k].quota_used - cost
          /\ (pc[r] = "forward" /\ pc'[r] = "relayed_rejection") =>
                 ~api_keys'[k].is_active]_vars

\* ---- C20
\* C20: a request whose caller cancelled it between the reservation and the
\* relaying of the response ends by taking its reservation back, as on a
\* transport failure.
C20_CancelRollsBack ==
    [][\A r \in Reqs :
          (cancelled[r] /\ pc[r] = "forward" /\ pc'[r] # "forward") =>
              /\ pc'[r] = "d502"
              /\ api_keys'[key[r].id].quota_used = api_keys[key[r].id].quota_used - cost]_vars

\* ---- C21
\* The ways a proxy request ends: 503, 500, 502 or a relayed upstream response.
Outcomes == {"d503", "d500", "d502", "relayed", "relayed_rejection"}

C22_RolloverAdvancesPastNow ==
    [][\A r \in Reqs :
          (pc[r] = "selected" /\ pc'[r] = "reserve" /\ ShouldReset(key[r], now)) =>
              LET row == api_keys'[key[r].id] IN
              /\ row.quota_used = 0
              /\ row.refreshes_at > now
              /\ row.refreshes_at % MonthLen = 0]_vars

\* ---- C23
\* C23: when the Select of a request returns, no active key of the table
\* has a refreshes_at earlier than the time the Select read.
C23_EveryStaleKeyRolledOver ==
    [][\A r \in Reqs :
          (pc[r] = "selected" /\ pc'[r] = "reserve") =>
              \A k \in Keys :
                  (api_keys'[k].exists /\ api_keys'[k].is_active) =>
                      ~(api_keys'[k].refreshes_at # 0 /\ api_keys'[k].refreshes_at < now)]_vars

\* ---- C24
\* A step of the refresh of key ridx.
RefreshStep == rpc \in {"check", "status"} /\ rpc' # rpc /\ \A r \in Reqs : pc'[r] = pc[r]

\* C24: the rollback of a failed upstream call changes only quota_used, the
\* update on a 401 or 403 changes only is_active, error_count and
\* last_checked, and a Refresh never changes last_used.
C24_ReconcileWritesOwnFields ==
    [][/\ \A r \in Reqs :
            LET old == api_keys[key[r].id]
                new == api_keys'[key[r].id] IN
            /\ (pc[r] = "forward" /\ pc'[r] = "d502") =>
                   new = [old EXCEPT !.quota_used = new.quota_used]
            /\ (pc[r] = "forward" /\ pc'[r] = "relayed_rejection") =>
                   new = [old EXCEPT !.is_active = new.is_active,
                                     !.error_count = new.error_count,
                                     !.last_checked = new.last_checked]
       /\ RefreshStep => \A k \in Keys : api_keys'[k].last_used = api_keys[k].last_used]_vars

\* ---- C25
\* C25: a request answers 503 only when its scan found no row satisfying the
\* eligibility predicate.
C25_Only503WhenNoneEligible ==
    [][\A r \in Reqs :
          (pc[r] # "d503" /\ pc'[r] = "d503") =>
              (pc[r] = "locked" /\ \A k \in Keys : ~SpecEligible(api_keys[k]))]_vars

\* ---- C26
\* t occurs in s as a substring (a prefix included).
Contains(s, t) ==
    \E i \in 0..(Len(s) - Len(t)) : SubSeq(s, i + 1, i + Len(t)) = t

\* C26: the key an administrative response shows never contains the whole
\* secret, whatever the secret's length.
C26_MaskedHidesSecret ==
    masked # <<>> => ~Contains(masked, secret)

\* ---- C27
\* C27: a Refresh is not serialised with the Selects: no step of it takes or
\* waits for keyMutex or moves a request, and its overwrite sets quota_used to
\* quota_limit - r whatever reservations the key holds at that moment.
C27_RefreshRacesWithSelect ==
    [][(rpc' # rpc \/ updatedCount' # updatedCount) =>
          /\ keyMutex' = keyMutex /\ pc' = pc
          /\ (rpc = "check" /\ (rpc' = "status" \/ updatedCount' # updatedCount)) =>
                api_keys'[ridx].quota_used
                    \in OverwriteValues(rkeys[ridx].quota_limit, rvalid')]_vars

\* A request holds a reservation of cost 2 on a key of limit 2 and has not
\* ended, no other request has started, and the refresh has left quota_used
\* at 2 - 1: the reservation is gone from the count.
C27_Witness ==
    \E r \in Reqs, k \in Keys :
        /\ cost = 2 /\ pc[r] = "forward" /\ key[r].id = k
        /\ \A q \in Reqs \ {r} : pc[q] = "start"
        /\ rpc = "done" /\ updatedCount >= 1 /\ rvalid
        /\ api_keys[k].quota_limit = 2 /\ api_keys[k].quota_used = 1

\* ---- C28
\* C28: a request calls the upstream only after its reservation is written,
\* once, with the key its Select returned; a request whose reservation failed
\* answers 500, has made no call and makes no further step (no rollback).
C28_CallOnlyAfterReservation ==
    [][\A r \in Reqs :
          /\ calls'[r] # calls[r] => (pc[r] = "forward" /\ calls[r] = 0 /\ key[r].id # 0)
          /\ pc'[r] = "forward" =>
                 \/ pc[r] = "forward"
                 \/ /\ pc[r] = "reserve"
                    /\ api_keys'[key[r].id].quota_used = api_keys[key[r].id].quota_used + cost
          /\ pc[r] \in {"reserve", "forward"} => key'[r] = key[r]
          /\ (pc[r] = "reserve" /\ pc'[r] \notin {"reserve", "forward"}) =>
                 (pc'[r] = "d500" /\ calls'[r] = 0 /\ api_keys' = api_keys)
          /\ pc[r] = "d500" => (pc'[r] = "d500" /\ calls'[r] = 0)]_vars

\* One request failed to reserve and answered 500 without a call; the other
\* reserved a positive cost on the same key and has relayed a response.
C28_Witness ==
    \E r1, r2 \in Reqs :
        /\ pc[r1] = "d500" /\ calls[r1] = 0
        /\ pc[r2] = "relayed" /\ calls[r2] = 1 /\ key[r2].id = key[r1].id
        /\ cost > 0
        /\ api_keys[key[r2].id].quota_used = key[r2].quota_used + cost

\* ---- C29
\* Holding(k) in the next state.
HoldingNext(k) == {r \in Reqs : pc'[r] \in Reserved /\ key'[r].id = k}

\* A step is the rollover of key k.
RolloverOf(k) ==
    \E r \in Reqs : /\ pc[r] = "selected" /\ pc'[r] # "selected"
                    /\ key[r].id = k /\ ShouldReset(key[r], now)

\* C29: quota accounting is conserved: in every step that is not a rollover
\* of the key, quota_used changes by cost times the change in the number of
\* requests that have reserved the key and not rolled back; so without a
\* rollover quota_used stays at its initial value plus cost times that number.
C29_QuotaConserved ==
    [][\A k \in Keys :
          ~RolloverOf(k) =>
              api_keys'[k].quota_used - api_keys[k].quota_used =
                  cost * (Cardinality(HoldingNext(k)) - Cardinality(Holding(k)))]_vars

\* Both requests reserved cost 2 on one key in its current period and have
\* ended, one rolled back, one with a response: the key counts 2 more than
\* the first of them found.
C29_Witness ==
    \E r1, r2 \in Reqs, k \in Keys :
        /\ cost = 2 /\ key[r1].id = k /\ key[r2].id = k
        /\ pc[r1] = "d502" /\ pc[r2] \in {"relayed", "relayed_rejection"}
        /\ key[r1].refreshes_at = api_keys[k].refreshes_at
        /\ key[r2].refreshes_at = api_keys[k].refreshes_at
        /\ key[r1].quota_used = 0 /\ key[r2].quota_used = 2
        /\ api_keys[k].quota_used = 2

\* ---- C30
\* C30: no write lowers error_count of a key.
C30_ErrorCountNeverDecreases ==
    [][\A k \in Keys : api_keys'[k].error_count >= api_keys[k].error_count]_vars

\* ---- C31
\* A deleted row: its id was handed out (AUTOINCREMENT never reuses it) and
\* the row is gone.
Deleted(k) == k <= seq /\ ~api_keys[k].exists

\* The part of C31 about later writes: no step brings back a deleted row.
NoRowRecreated ==
    [][\A k \in Keys : Deleted(k) => ~api_keys'[k].exists]_vars

\* C31: a Select whose key was deleted or deactivated between the eligibility
\* scan and the reservation write does not succeed with that key (the request
\* makes no upstream call with it), and no write of an in-flight request
\* re-creates a deleted key.
C31_NoSelectOfRemovedKey ==
    [][/\ \A r \in Reqs :
            (pc[r] = "reserve" /\ pc'[r] = "forward") =>
                /\ api_keys[key[r].id].exists
                /\ api_keys[key[r].id].is_active
       /\ \A k \in Keys : Deleted(k) => ~api_keys'[k].exists]_vars

\* The lock does not keep the administrative handlers out: a key is deleted or
\* deactivated while a request holds keyMutex between its scan and its write.
C31_RemovedUnderLock ==
    \E r \in Reqs :
        /\ pc[r] = "reserve"
        /\ keyMutex = r
        /\ \/ ~api_keys[key[r].id].exists
           \/ ~api_keys[key[r].id].is_active

\* ---- C32
\* The first part of C32: with cost_per_request = 0 the reservation write
\* leaves quota_used of the key as it is and sets last_used to the clock.
ZeroCostReservation ==
    [][\A r \in Reqs :
          (cost = 0 /\ pc[r] = "reserve" /\ pc'[r] = "forward") =>
              /\ api_keys'[key[r].id].quota_used = api_keys[key[r].id].quota_used
              /\ api_keys'[key[r].id].last_used = now]_vars

\* C32: on NumKeys eligible keys of equal utilisation and distinct last_used
\* timestamps, NumKeys Selects that follow one another return NumKeys distinct
\* keys (least recently used first).
C32_RotationDistinct ==
    \A r1, r2 \in Reqs :
        (r1 # r2 /\ pc[r1] = "forward" /\ pc[r2] = "forward") =>
            key[r1].id # key[r2].id

\* ---- C33
\* The keys of the slice refreshAPIKeys iterates over (total_keys).
TotalKeys == Cardinality({k \in Keys : rkeys[k].exists})

\* C33: the step of refreshAPIKeys on which the probe of a key fails leaves
\* quota_used, is_active and error_count of that key unchanged and moves the
\* loop on to the next key of the slice; and when the handler answers,
\* updated_keys is the number of keys of the slice less those whose refresh
\* returned an error.
C33_FailedProbeChangesNothing ==
    [][/\ (rpc = "check" /\ refreshErrors' # refreshErrors) =>
            /\ api_keys'[ridx].quota_used = api_keys[ridx].quota_used
            /\ api_keys'[ridx].is_active = api_keys[ridx].is_active
            /\ api_keys'[ridx].error_count = api_keys[ridx].error_count
            /\ ridx' = NextKey(rkeys, ridx)
            /\ updatedCount' = updatedCount
       /\ rpc' = "done" => updatedCount' = TotalKeys' - refreshErrors']_vars

\* The probe of key 1 failed and the loop went on to refresh key 2: no proxy
\* request has run, key 1 is as it was added and key 2 carries the write of
\* UpdateAPIKeyUsage.
C33_Witness ==
    /\ rpc = "done"
    /\ refreshErrors = 1
    /\ updatedCount = 1
    /\ \A r \in Reqs : pc[r] = "start"
    /\ api_keys[1].exists /\ api_keys[1].last_used = 0
    /\ api_keys[2].exists /\ api_keys[2].last_used = now
====
